---- MODULE Spec2Model ----
(***************************************************************************)
(* Model of pyalgotrade/mtgox/tools.py: the MtGox trade downloader.        *)
(*                                                                         *)
(* One run of a download_trades_by_* wrapper is modelled: the CSV file is  *)
(* opened (TradesFile), download_trades walks the id range                 *)
(* [tidBegin, tidEnd) page by page, every page being fetched by            *)
(* download_trades_since (with its retry loop around download_trades_impl) *)
(* and filtered by Trades.                                                 *)
(*                                                                         *)
(* The remote server is the environment.  It holds a fixed set of entries  *)
(* (upstream) and answers "trades?since=tid" with the PageSize entries of  *)
(* lowest tid among those with tid >= since, in any order.  An entry is a  *)
(* primary trade ("Y"), a non primary echo of a trade of another currency  *)
(* ("N"), or a primary trade with a field that int() rejects ("B").        *)
(* In a download a Trade object is represented by its id: price, amount    *)
(* and type are carried along with it unchanged by the walker.             *)
(*                                                                         *)
(* The pure functions (the range calculators, the record decoder and the   *)
(* page filter) are also exercised on their own, one application to one    *)
(* argument, under FunSpec.                                                *)
(***************************************************************************)
EXTENDS Integers, Sequences, FiniteSets, TLC

\* Bounds of the model.
MaxTid == 3
PageSize == 2

\* retries=3, the default of download_trades_since.
DefaultRetries == 3

\* None (Trades.__first / __last before any trade is kept; no cursor yet).
NoTid == -1

\* The first line of the CSV file.
Header == "id,price,amount,type"

Tids == 0..MaxTid
Kinds == {"-", "Y", "N", "B"}

VARIABLES
    upstream,   \* the server's entries: tid -> kind ("-" is no entry)
    tidBegin,   \* download_trades parameter
    tidEnd,     \* download_trades parameter
    pc,         \* position in the code
    fileOpen,   \* the file object of TradesFile is open
    sink,       \* the lines of the CSV file
    nextTid,    \* download_trades local
    done,       \* download_trades local
    tid,        \* download_trades_since parameter of the current/last call
    requested,  \* the tids of the download_trades_since calls made before the current one (history)
    retries,    \* download_trades_since parameter/local
    attempts,   \* number of download_trades_impl calls made by the current call (history)
    response,   \* response["return"] of the last successful download_trades_impl
    trades,     \* the Trades object returned by download_trades_since
    sinkAtCall, \* the file's lines when the current download_trades_since call began (history)
    batch,      \* the argument of the last addTrades call of the current iteration (history)
    cause,      \* why the run raised: "fetch", "decode" or "none"
    spentBefore, \* a call for an earlier page used up its whole retry budget and succeeded (history)
    op,         \* the function applied (when a function is exercised on its own)
    arg,        \* its argument
    result      \* its result

\* The state of one download.
runVars == <<upstream, tidBegin, tidEnd, pc, fileOpen, sink, nextTid, done, tid, requested,
             retries, attempts, response, trades, sinkAtCall, batch, cause, spentBefore>>

\* The state of one function application.
funVars == <<op, arg, result>>

vars == <<runVars, funVars>>

----------------------------------------------------------------------------
\* Helpers on sequences and sets.

Range(s) == {s[i] : i \in 1..Len(s)}

Min(S) == CHOOSE x \in S : \A y \in S : x <= y

\* All the orders in which the elements of the finite set S can be listed.
Orderings(S) ==
    {s \in [1..Cardinality(S) -> S] : \A i, j \in 1..Cardinality(S) : i # j => s[i] # s[j]}

----------------------------------------------------------------------------
\* The server.

\* The tids the server holds that a request "since" may return.
Available(since) == {t \in Tids : upstream[t] # "-" /\ t >= since}

RECURSIVE Lowest(_, _)
\* The n lowest elements of S (all of S when it has fewer).
Lowest(S, n) ==
    IF n = 0 \/ S = {} THEN {}
    ELSE {Min(S)} \cup Lowest(S \ {Min(S)}, n - 1)

\* One raw entry of response["return"].
Entry(t) == [tid |-> t,
             primary |-> IF upstream[t] = "N" THEN "N" ELSE "Y",
             malformed |-> upstream[t] = "B"]

\* The pages download_trades_impl(currency, since) can return: the entries of
\* the PageSize lowest available tids, in any order.
Pages(since) ==
    {[i \in 1..Len(o) |-> Entry(o[i])] : o \in Orderings(Lowest(Available(since), PageSize))}

----------------------------------------------------------------------------
\* Trades.__init__ (lines 81-99).

\* Trade(trade) raises for a kept entry whose fields int() rejects.
DecodeFails(entries) ==
    \E i \in 1..Len(entries) : entries[i].primary = "Y" /\ entries[i].malformed

\* if trade["primary"] != "Y": continue
Kept(trade) == trade.primary = "Y"

RECURSIVE TradesFoldInputOrder(_, _)
\* A Trades that takes the first and the last kept entry, by position, for
\* first and last.
TradesFoldInputOrder(entries, n) ==
    IF n = 0 THEN [first |-> NoTid, last |-> NoTid, trades |-> <<>>]
    ELSE LET o == TradesFoldInputOrder(entries, n - 1)
             e == entries[n]
         IN  IF ~Kept(e) THEN o
             ELSE [first  |-> IF o.first = NoTid THEN e.tid ELSE o.first,
                   last   |-> e.tid,
                   trades |-> Append(o.trades, e.tid)]

RECURSIVE TradesFoldAllIds(_, _)
\* A Trades that updates first and last before it tests the primary field.
TradesFoldAllIds(entries, n) ==
    IF n = 0 THEN [first |-> NoTid, last |-> NoTid, trades |-> <<>>]
    ELSE LET o == TradesFoldAllIds(entries, n - 1)
             e == entries[n]
         IN  [first  |-> IF o.first = NoTid \/ e.tid < o.first THEN e.tid ELSE o.first,
              last   |-> IF o.last = NoTid \/ e.tid > o.last THEN e.tid ELSE o.last,
              trades |-> IF Kept(e) THEN Append(o.trades, e.tid) ELSE o.trades]

RECURSIVE TradesFold(_, _)
\* The Trades object after the loop has processed the first n entries.
TradesFold(entries, n) ==
    IF n = 0 THEN [first |-> NoTid, last |-> NoTid, trades |-> <<>>]
    ELSE LET o == TradesFold(entries, n - 1)
             e == entries[n]
         IN  IF ~Kept(e) THEN o
             ELSE [first  |-> IF o.first = NoTid \/ e.tid < o.first THEN e.tid ELSE o.first,
                   last   |-> IF o.last = NoTid \/ e.tid > o.last THEN e.tid ELSE o.last,
                   trades |-> Append(o.trades, e.tid)]

Trades(entries) == TradesFold(entries, Len(entries))

getFirst(t) == t.first
getLast(t) == t.last
getTrades(t) == t.trades

NoTrades == [first |-> NoTid, last |-> NoTid, trades |-> <<>>]

----------------------------------------------------------------------------
\* Pieces of download_trades_since and download_trades.

\* A retry loop that gives up one retry early.
RetriesExhaustedEarly(r) == r = 1

\* if retries == 0: raise e
RetriesExhausted(r) == r = 0

\* An emptiness test that never succeeds.
IsEmptyPageNever(t) == FALSE

\* len(trades.getTrades()) == 0
IsEmptyPage(t) == Len(getTrades(t)) = 0

\* trades.getLast().getId() < tidEnd
BelowEnd(t, e) == getLast(t) < e

\* Cursors that restart at the last trade, that follow the first trade, and
\* that skip an id.
NextCursorSame(t) == getLast(t)
NextCursorFirst(t) == getFirst(t) + 1
NextCursorSkip(t) == getLast(t) + 2

\* nextTid = trades.getLast().getId() + 1
NextCursor(t) == getLast(t) + 1

\* A clamp that lets id = tidEnd through.
TradeItemsInclusive(t, e) == SelectSeq(getTrades(t), LAMBDA x : x <= e)

\* tradeItems: the trades with trade.getId() < tidEnd, in order.
TradeItems(t, e) == SelectSeq(getTrades(t), LAMBDA x : x < e)

\* An empty page that leaves done unset.
DoneOnEmptyForgotten == FALSE

\* done = True, when no trade was kept (line 161).
DoneOnEmpty == TRUE

\* An addTrades that starts the file again (header, then the batch).
addTradesRewrites(f, ts) == <<Header>> \o ts

\* An addTrades that writes the first trade of the batch only.
addTradesFirstOnly(f, ts) == IF ts = <<>> THEN f ELSE Append(f, ts[1])

\* TradesFile.addTrades: one line per trade, in the given order.
addTrades(f, ts) == f \o ts

----------------------------------------------------------------------------
Init ==
    /\ upstream \in [Tids -> Kinds]
    /\ tidBegin \in 0..MaxTid
    /\ tidEnd \in 1..(MaxTid + 1)
    /\ tidBegin < tidEnd
    /\ pc = "start"
    /\ fileOpen = FALSE
    /\ sink = <<>>
    /\ nextTid = NoTid
    /\ done = FALSE
    /\ tid = NoTid
    /\ requested = {}
    /\ retries = DefaultRetries
    /\ attempts = 0
    /\ response = <<>>
    /\ trades = NoTrades
    /\ sinkAtCall = <<>>
    /\ batch = <<>>
    /\ cause = "none"
    /\ spentBefore = FALSE
    /\ op = "download"
    /\ arg = <<>>
    /\ result = <<>>

\* download_trades_by_year/month/day: tradesFile = TradesFile(csvFile).
TradesFileInit ==
    /\ pc = "start"
    /\ fileOpen' = TRUE
    /\ sink' = <<Header>>
    /\ pc' = "call"
    /\ UNCHANGED <<upstream, tidBegin, tidEnd, nextTid, done, tid, requested, retries,
                   attempts, response, trades, sinkAtCall, batch, cause>>
    /\ UNCHANGED <<spentBefore, funVars>>

\* download_trades entry: nextTid = tidBegin; done = False.
DownloadTradesEnter ==
    /\ pc = "call"
    /\ nextTid' = tidBegin
    /\ done' = FALSE
    /\ pc' = "loop"
    /\ UNCHANGED <<upstream, tidBegin, tidEnd, fileOpen, sink, tid, requested, retries,
                   attempts, response, trades, sinkAtCall, batch, cause>>
    /\ UNCHANGED <<spentBefore, funVars>>

\* A call that goes on with the retries the earlier pages left (one budget
\* for the whole download).
CallSinceSharedBudget ==
    /\ pc = "loop"
    /\ ~done
    /\ tid' = nextTid
    /\ requested' = IF tid = NoTid THEN {} ELSE requested \cup {tid}
    /\ attempts' = 0
    /\ sinkAtCall' = sink
    /\ batch' = <<>>
    /\ spentBefore' = (spentBefore \/ (tid # NoTid /\ retries = 0))
    /\ pc' = "try"
    /\ UNCHANGED <<upstream, tidBegin, tidEnd, fileOpen, sink, nextTid, done, response,
                   trades, cause, retries>>
    /\ UNCHANGED funVars

\* while not done: trades = download_trades_since(currency, nextTid) -- the call.
CallSince ==
    /\ pc = "loop"
    /\ ~done
    /\ tid' = nextTid
    /\ requested' = IF tid = NoTid THEN {} ELSE requested \cup {tid}
    /\ retries' = DefaultRetries
    /\ attempts' = 0
    /\ sinkAtCall' = sink
    /\ batch' = <<>>
    /\ spentBefore' = (spentBefore \/ (tid # NoTid /\ retries = 0))
    /\ pc' = "try"
    /\ UNCHANGED <<upstream, tidBegin, tidEnd, fileOpen, sink, nextTid, done, response,
                   trades, cause>>
    /\ UNCHANGED funVars

\* A retry that asks for the next id instead of the same cursor.
ImplRaisesMovesCursor ==
    /\ pc = "try"
    /\ attempts' = attempts + 1
    /\ IF RetriesExhausted(retries)
       THEN /\ pc' = "raised"
            /\ cause' = "fetch"
            /\ UNCHANGED <<retries, tid>>
       ELSE /\ retries' = retries - 1
            /\ tid' = tid + 1
            /\ UNCHANGED <<pc, cause>>
    /\ UNCHANGED <<upstream, tidBegin, tidEnd, fileOpen, sink, nextTid, done, requested,
                   response, trades, sinkAtCall, batch>>
    /\ UNCHANGED <<spentBefore, funVars>>

\* download_trades_impl raises (network error, content type, result).
ImplRaises ==
    /\ pc = "try"
    /\ attempts' = attempts + 1
    /\ IF RetriesExhausted(retries)
       THEN /\ pc' = "raised"
            /\ cause' = "fetch"
            /\ UNCHANGED retries
       ELSE /\ retries' = retries - 1
            /\ UNCHANGED <<pc, cause>>
    /\ UNCHANGED <<upstream, tidBegin, tidEnd, fileOpen, sink, nextTid, done, tid, requested,
                   response, trades, sinkAtCall, batch>>
    /\ UNCHANGED <<spentBefore, funVars>>

\* A download_trades_since that builds Trades inside the try block, so that a
\* decode failure is retried like a failed fetch.
ImplReturnsRetryDecode ==
    /\ pc = "try"
    /\ attempts' = attempts + 1
    /\ \E page \in Pages(tid) :
        /\ response' = page
        /\ IF DecodeFails(page)
           THEN IF RetriesExhausted(retries)
                THEN /\ pc' = "raised"
                     /\ cause' = "decode"
                     /\ UNCHANGED <<trades, retries>>
                ELSE /\ retries' = retries - 1
                     /\ UNCHANGED <<pc, cause, trades>>
           ELSE /\ trades' = Trades(page)
                /\ pc' = "page"
                /\ UNCHANGED <<cause, retries>>
    /\ UNCHANGED <<upstream, tidBegin, tidEnd, fileOpen, sink, nextTid, done, tid, requested,
                   sinkAtCall, batch>>
    /\ UNCHANGED <<spentBefore, funVars>>

\* download_trades_impl returns; ret = Trades(response["return"]).
ImplReturns ==
    /\ pc = "try"
    /\ attempts' = attempts + 1
    /\ \E page \in Pages(tid) :
        /\ response' = page
        /\ IF DecodeFails(page)
           THEN /\ pc' = "raised"
                /\ cause' = "decode"
                /\ UNCHANGED trades
           ELSE /\ trades' = Trades(page)
                /\ pc' = "page"
                /\ UNCHANGED cause
    /\ UNCHANGED <<upstream, tidBegin, tidEnd, fileOpen, sink, nextTid, done, tid, requested,
                   retries, sinkAtCall, batch>>
    /\ UNCHANGED <<spentBefore, funVars>>

\* if len(trades.getTrades()) == 0: done = True
PageEmpty ==
    /\ pc = "page"
    /\ IsEmptyPage(trades)
    /\ done' = DoneOnEmpty
    /\ pc' = "loop"
    /\ UNCHANGED <<upstream, tidBegin, tidEnd, fileOpen, sink, nextTid, tid, requested,
                   retries, attempts, response, trades, sinkAtCall, batch, cause>>
    /\ UNCHANGED <<spentBefore, funVars>>

\* elif trades.getLast().getId() < tidEnd: store the page, move the cursor.
PageBelowEnd ==
    /\ pc = "page"
    /\ ~IsEmptyPage(trades)
    /\ BelowEnd(trades, tidEnd)
    /\ sink' = addTrades(sink, getTrades(trades))
    /\ batch' = getTrades(trades)
    /\ nextTid' = NextCursor(trades)
    /\ pc' = "loop"
    /\ UNCHANGED <<upstream, tidBegin, tidEnd, fileOpen, done, tid, requested, retries,
                   attempts, response, trades, sinkAtCall, cause>>
    /\ UNCHANGED <<spentBefore, funVars>>

\* else: done = True; store only the trades below tidEnd.
PageBeyondEnd ==
    /\ pc = "page"
    /\ ~IsEmptyPage(trades)
    /\ ~BelowEnd(trades, tidEnd)
    /\ done' = TRUE
    /\ sink' = addTrades(sink, TradeItems(trades, tidEnd))
    /\ batch' = TradeItems(trades, tidEnd)
    /\ pc' = "loop"
    /\ UNCHANGED <<upstream, tidBegin, tidEnd, fileOpen, nextTid, tid, requested, retries,
                   attempts, response, trades, sinkAtCall, cause>>
    /\ UNCHANGED <<spentBefore, funVars>>

\* The loop ends and download_trades, then the wrapper, return.  Nothing closes
\* the file: whether it is closed once tradesFile is unreferenced is up to the
\* interpreter's garbage collection.
Return ==
    /\ pc = "loop"
    /\ done
    /\ pc' = "returned"
    /\ fileOpen' \in BOOLEAN
    /\ UNCHANGED <<upstream, tidBegin, tidEnd, sink, nextTid, done, tid, requested, retries,
                   attempts, response, trades, sinkAtCall, batch, cause>>
    /\ UNCHANGED <<spentBefore, funVars>>

Next ==
    \/ TradesFileInit
    \/ DownloadTradesEnter
    \/ CallSince
    \/ ImplRaises
    \/ ImplReturns
    \/ PageEmpty
    \/ PageBelowEnd
    \/ PageBeyondEnd
    \/ Return

Spec == Init /\ [][Next]_vars

\* Every step of the single thread is eventually taken.
LiveSpec == Init /\ [][Next]_vars /\ WF_vars(Next)

----------------------------------------------------------------------------
\* The range calculators (lines 30-35, 189-193, 214-221, 227-231).
\*
\* A date is [y, m, d] at midnight UTC.  A tid is unixTime * 1000000, which
\* does not fit the model checker's integers: it is held as [hi, lo], standing
\* for hi * 1000000 + lo with 0 <= lo < 1000000.

\* Bounds of the calendar: the years 2011 .. 2011 + YearSpan.
YearSpan == 2
Years == 2011..(2011 + YearSpan)

IsLeap(y) == (y % 4 = 0 /\ y % 100 # 0) \/ y % 400 = 0

DaysInMonth(y, m) ==
    IF m = 2 THEN (IF IsLeap(y) THEN 29 ELSE 28)
    ELSE IF m \in {4, 6, 9, 11} THEN 30 ELSE 31

RECURSIVE DaysBeforeMonth(_, _)
DaysBeforeMonth(y, m) ==
    IF m = 1 THEN 0 ELSE DaysBeforeMonth(y, m - 1) + DaysInMonth(y, m - 1)

\* The leap years before year y.
LeapsBefore(y) == ((y - 1) \div 4) - ((y - 1) \div 100) + ((y - 1) \div 400)

\* Days from 1970-01-01 to the date.
DaysFromEpoch(date) ==
    365 * (date.y - 1970) + (LeapsBefore(date.y) - LeapsBefore(1970))
        + DaysBeforeMonth(date.y, date.m) + (date.d - 1)

\* dt.datetime_to_timestamp(dt.as_utc(dateTime)): seconds since the epoch.
datetime_to_timestamp(date) == DaysFromEpoch(date) * 86400

\* return unixTime * 1000000
timestamp_to_tid(unixTime) == [hi |-> unixTime, lo |-> 0]

datetime_to_tid(dateTime) == timestamp_to_tid(datetime_to_timestamp(dateTime))

\* a < b for tids.
TidLess(a, b) == a.hi < b.hi \/ (a.hi = b.hi /\ a.lo < b.lo)

\* begin + datetime.timedelta(days=1)
NextDay(date) ==
    IF date.d < DaysInMonth(date.y, date.m) THEN [y |-> date.y, m |-> date.m, d |-> date.d + 1]
    ELSE IF date.m < 12 THEN [y |-> date.y, m |-> date.m + 1, d |-> 1]
    ELSE [y |-> date.y + 1, m |-> 1, d |-> 1]

\* download_trades_by_year: begin, end, tidBegin, tidEnd.
YearRange(year) ==
    [begin |-> datetime_to_tid([y |-> year, m |-> 1, d |-> 1]),
     end   |-> datetime_to_tid([y |-> year + 1, m |-> 1, d |-> 1])]

\* An end of month that forgets the year of the January after December.
MonthEndSameYear(year, month) == [y |-> year, m |-> (month % 12) + 1, d |-> 1]

\* if month == 12: end = datetime(year+1, 1, 1) else: end = datetime(year, month + 1, 1)
MonthEnd(year, month) ==
    IF month = 12 THEN [y |-> year + 1, m |-> 1, d |-> 1]
    ELSE [y |-> year, m |-> month + 1, d |-> 1]

\* download_trades_by_month: begin, end, tidBegin, tidEnd.
MonthRange(year, month) ==
    [begin |-> datetime_to_tid([y |-> year, m |-> month, d |-> 1]),
     end   |-> datetime_to_tid(MonthEnd(year, month))]

\* download_trades_by_day: begin, end, tidBegin, tidEnd.
DayRange(year, month, day) ==
    [begin |-> datetime_to_tid([y |-> year, m |-> month, d |-> day]),
     end   |-> datetime_to_tid(NextDay([y |-> year, m |-> month, d |-> day]))]

----------------------------------------------------------------------------
\* The record decoder (lines 42-63).
\*
\* A numeric field of a raw entry arrives as a number or as a string:
\* [form, n] is the number n (form "int"), the decimal string of n (form
\* "str") or a string int() rejects (form "junk").  A price or amount is held
\* as [mant, exp], standing for mant * 10^-exp.

\* Bound of the numeric fields.
MaxVal == 2

RawNumbers == [form : {"int", "str", "junk"}, n : 0..MaxVal]

Currencies == {"JPY", "jpy", "Jpy", "SEK", "sek", "BTC", "btc", "USD", "usd", "EUR"}

\* currency.upper()
Upper(c) ==
    CASE c \in {"JPY", "jpy", "Jpy"} -> "JPY"
      [] c \in {"SEK", "sek"} -> "SEK"
      [] c \in {"BTC", "btc"} -> "BTC"
      [] c \in {"USD", "usd"} -> "USD"
      [] OTHER -> c

\* int(x) raises ValueError.
IntFails(x) == x.form = "junk"

\* int(x)
int(x) == x.n

\* A from_value_int that compares the currency as it came.
from_value_intCaseSensitive(currency, value_int) ==
    IF currency \in {"JPY", "SEK"} THEN [mant |-> int(value_int), exp |-> 3]
    ELSE IF currency = "BTC" THEN [mant |-> int(value_int), exp |-> 8]
    ELSE [mant |-> int(value_int), exp |-> 5]

from_value_int(currency, value_int) ==
    IF Upper(currency) \in {"JPY", "SEK"} THEN [mant |-> int(value_int), exp |-> 3]
    ELSE IF Upper(currency) = "BTC" THEN [mant |-> int(value_int), exp |-> 8]
    ELSE [mant |-> int(value_int), exp |-> 5]

from_amount_int(value_int) == [mant |-> int(value_int), exp |-> 8]

\* The raw entries the decoder is exercised on.
RawTrades ==
    [tid : RawNumbers, price_currency : Currencies, price_int : RawNumbers,
     amount_int : RawNumbers, trade_type : {"bid", "ask"}]

\* Trade.__init__ raises.
TradeFails(trade) ==
    IntFails(trade.tid) \/ IntFails(trade.price_int) \/ IntFails(trade.amount_int)

\* Trade.__init__ (the date, derived from tid alone and never written to the
\* file, is left out).
Trade(trade) ==
    [tradeId |-> int(trade.tid),
     price   |-> from_value_int(trade.price_currency, trade.price_int),
     amount  |-> from_amount_int(trade.amount_int),
     type    |-> trade.trade_type]

----------------------------------------------------------------------------
\* Raw pages, in any order and with any primary field, for the page filter.

\* Bounds of the raw pages.
MaxRawLen == 3
MaxRawTid == 2

RawEntries == [tid : 0..MaxRawTid, primary : {"Y", "N", "y"}, malformed : {FALSE}]

RawPages == UNION {[1..n -> RawEntries] : n \in 0..MaxRawLen}

----------------------------------------------------------------------------
\* One function applied to one argument.

\* The result of a function that raised.
Raised == [raised |-> TRUE]

FunInit ==
    /\ upstream = [t \in Tids |-> "-"]
    /\ tidBegin = 0
    /\ tidEnd = 1
    /\ pc = "idle"
    /\ fileOpen = FALSE
    /\ sink = <<>>
    /\ nextTid = NoTid
    /\ done = FALSE
    /\ tid = NoTid
    /\ requested = {}
    /\ retries = DefaultRetries
    /\ attempts = 0
    /\ response = <<>>
    /\ trades = NoTrades
    /\ sinkAtCall = <<>>
    /\ batch = <<>>
    /\ cause = "none"
    /\ spentBefore = FALSE
    /\ op = "none"
    /\ result = <<>>
    /\ \/ arg \in [kind : {"year"}, year : Years]
       \/ arg \in [kind : {"month"}, year : Years, month : 1..12]
       \/ \E y \in Years, m \in 1..12 :
              arg \in [kind : {"day"}, year : {y}, month : {m}, day : 1..DaysInMonth(y, m)]
       \/ arg \in [kind : {"trade"}, trade : RawTrades]
       \/ arg \in [kind : {"page"}, entries : RawPages]

\* download_trades_by_year, up to tidBegin and tidEnd.
ByYear ==
    /\ op = "none"
    /\ arg.kind = "year"
    /\ op' = "download_trades_by_year"
    /\ result' = YearRange(arg.year)
    /\ UNCHANGED <<arg, runVars>>

\* download_trades_by_month, up to tidBegin and tidEnd.
ByMonth ==
    /\ op = "none"
    /\ arg.kind = "month"
    /\ op' = "download_trades_by_month"
    /\ result' = MonthRange(arg.year, arg.month)
    /\ UNCHANGED <<arg, runVars>>

\* download_trades_by_day, up to tidBegin and tidEnd.
ByDay ==
    /\ op = "none"
    /\ arg.kind = "day"
    /\ op' = "download_trades_by_day"
    /\ result' = DayRange(arg.year, arg.month, arg.day)
    /\ UNCHANGED <<arg, runVars>>

\* Trade(trade)
DecodeTrade ==
    /\ op = "none"
    /\ arg.kind = "trade"
    /\ op' = "Trade"
    /\ result' = IF TradeFails(arg.trade) THEN Raised ELSE Trade(arg.trade)
    /\ UNCHANGED <<arg, runVars>>

\* Trades(entries)
FilterPage ==
    /\ op = "none"
    /\ arg.kind = "page"
    /\ op' = "Trades"
    /\ result' = IF DecodeFails(arg.entries) THEN Raised ELSE Trades(arg.entries)
    /\ UNCHANGED <<arg, runVars>>

\* Trades applied again, to the entries the first application kept.
FilterAgain ==
    /\ op = "Trades"
    /\ op' = "Trades again"
    /\ result' = [once |-> result, twice |-> Trades(SelectSeq(arg.entries, Kept))]
    /\ UNCHANGED <<arg, runVars>>

FunNext ==
    \/ ByYear
    \/ ByMonth
    \/ ByDay
    \/ DecodeTrade
    \/ FilterPage
    \/ FilterAgain

FunSpec == FunInit /\ [][FunNext]_vars

----------------------------------------------------------------------------
\* Vocabulary of the properties.

\* The trade lines of a file, the header left out.
Rows(f) == SubSeq(f, 2, Len(f))

\* No element occurs twice in s.
NoRepeat(s) == \A i, j \in 1..Len(s) : i # j => s[i] # s[j]

\* The primary trades the server holds with b <= id < e.
PrimaryIn(b, e) == {t \in Tids : upstream[t] \in {"Y", "B"} /\ b <= t /\ t < e}

\* The run has gone through at least one iteration of the loop of download_trades.
Iterated == pc \in {"loop", "returned"} /\ tid # NoTid

----------------------------------------------------------------------------
\* C1: when download_trades returns, the trade lines of the file are exactly
\* the primary trades of the server with tidBegin <= id < tidEnd, each once.
C1_ExactRange ==
    pc = "returned" =>
        /\ NoRepeat(Rows(sink))
        /\ Range(Rows(sink)) = PrimaryIn(tidBegin, tidEnd)

\* C2: a page whose highest kept id is >= tidEnd (equal included) is the last
\* one: exactly its kept trades with id < tidEnd are appended, in order, done
\* is set and nothing is fetched after it; no line of the file ever has an
\* id >= tidEnd.
C2_ClampAtEnd ==
    /\ \A i \in 2..Len(sink) : sink[i] < tidEnd
    /\ (Iterated /\ ~(getTrades(trades) = <<>>) /\ getLast(trades) >= tidEnd) =>
          /\ done
          /\ batch = SelectSeq(getTrades(trades), LAMBDA x : x < tidEnd)
          /\ sink = sinkAtCall \o batch
          /\ nextTid = tid

\* C2 witness: the run returned after a page whose highest id is exactly
\* tidEnd, of which something was kept.
C2_Witness ==
    /\ pc = "returned"
    /\ getLast(trades) = tidEnd
    /\ batch # <<>>
    /\ Len(batch) < Len(getTrades(trades))

\* C3: a fetch that fails on every try makes retries + 1 attempts and then
\* raises; when that is the first page the file holds the header alone.
C3_RetryExhaustion ==
    /\ pc = "try" => attempts = DefaultRetries - retries
    /\ (pc = "raised" /\ cause = "fetch") =>
          /\ attempts = DefaultRetries + 1
          /\ requested = {} => sink = <<Header>>

\* C3 witness: the first page failed four times.
C3_Witness ==
    pc = "raised" /\ cause = "fetch" /\ requested = {} /\ attempts = DefaultRetries + 1

C7_EmptyMeansNoMore ==
    (Iterated /\ done /\ getTrades(trades) = <<>>) => PrimaryIn(tid, tidEnd) = {}

\* C8: a page of zero entries ends download_trades without an error, after
\* that fetch, with nothing appended (the header alone when it is the first
\* page) and done set.
C8_EmptyUpstream ==
    (Iterated /\ response = <<>>) =>
        /\ done
        /\ cause = "none"
        /\ batch = <<>>
        /\ sink = sinkAtCall
        /\ requested = {} => sink = <<Header>>

\* C8 witness: the first page had no entry and the run returned.
C8_Witness ==
    pc = "returned" /\ response = <<>> /\ requested = {} /\ attempts = 1

\* C9: when an error ends the run, the file holds the header and then exactly
\* the trades of the pages processed before the failing one (the primary
\* trades from tidBegin up to the failing cursor), nothing of the failing page.
C9_PrefixOnError ==
    pc = "raised" =>
        /\ sink[1] = Header
        /\ sink = sinkAtCall
        /\ batch = <<>>
        /\ NoRepeat(Rows(sink))
        /\ Range(Rows(sink)) = PrimaryIn(tidBegin, tid)

\* C9 witness: a decode failure after two pages were written.
C9_Witness ==
    pc = "raised" /\ cause = "decode" /\ Cardinality(requested) = 2 /\ Len(sink) > 2

\* C10: the file is closed when the download ends, by return or by error.
C10_SinkClosedAtEnd == pc \in {"returned", "raised"} => ~fileOpen
\* C11: a decode failure is never retried: as soon as a fetched page has a
\* kept entry that cannot be decoded the error leaves download_trades_since,
\* after that one successful fetch, whatever retry budget remains.
C11_DecodeNotRetried ==
    DecodeFails(response) =>
        /\ pc = "raised"
        /\ cause = "decode"
        /\ attempts = (DefaultRetries - retries) + 1
        /\ sink = sinkAtCall

\* C11 witness: a decode failure on the first attempt, the whole budget left.
C11_Witness ==
    pc = "raised" /\ cause = "decode" /\ retries = DefaultRetries /\ attempts = 1
\* C12: the trade lines of the file are in non-decreasing id order, whatever
\* the order of the entries inside the pages.
C12_SinkSorted ==
    \A i, j \in 2..Len(sink) : i < j => sink[i] <= sink[j]
\* The ids of the entries of a raw page whose primary field is "Y", in order.
PrimaryTids(entries) ==
    LET k == SelectSeq(entries, LAMBDA e : e.primary = "Y")
    IN  [i \in 1..Len(k) |-> k[i].tid]

\* C15: a page with kept trades whose highest id is < tidEnd is appended
\* whole, in arrival order, the cursor becomes last.id + 1, done stays unset
\* and the next fetch is made from the new cursor.
C15_PageBelowEnd ==
    /\ pc \in {"try", "page"} => tid = nextTid
    /\ (pc = "loop" /\ tid # NoTid /\ getTrades(trades) # <<>> /\ getLast(trades) < tidEnd) =>
          /\ ~done
          /\ getTrades(trades) = PrimaryTids(response)
          /\ batch = getTrades(trades)
          /\ sink = sinkAtCall \o getTrades(trades)
          /\ nextTid = getLast(trades) + 1
          /\ ENABLED CallSince
          /\ ~ENABLED Return

\* C15 witness: the second page, of two trades, was below tidEnd too.
C15_Witness ==
    /\ pc = "loop"
    /\ ~done
    /\ requested # {}
    /\ Len(batch) = 2
    /\ getLast(trades) < tidEnd
\* C17: a failed attempt that is retried changes the retry budget (and the
\* count of attempts) and nothing else: the same cursor is requested again,
\* the cursor, done and the file are as they were; the page that then arrives
\* is one of the pages of that cursor, so that what is in the file after each
\* page does not depend on the failures.
C17_RetryFrame ==
    /\ [](pc = "try" => (tid = nextTid /\ sink = sinkAtCall /\ ~done))
    /\ []((pc = "loop" /\ tid # NoTid /\ ~done) =>
              Range(Rows(sink)) = PrimaryIn(tidBegin, nextTid))
    /\ [][(pc = "try" /\ pc' = "try") =>
              /\ retries' = retries - 1
              /\ attempts' = attempts + 1
              /\ UNCHANGED <<upstream, tidBegin, tidEnd, fileOpen, sink, nextTid, done, tid,
                             requested, response, trades, sinkAtCall, batch, cause>>]_vars
    /\ [][(pc = "try" /\ pc' = "page") =>
              \E p \in Pages(nextTid) : response' = p /\ trades' = Trades(p)]_vars

\* C17 witness: a run returned with trades in the file after a page whose
\* fetch failed three times before it succeeded.
C17_Witness == pc = "returned" /\ spentBefore /\ Len(sink) > 2
\* C18: the retry budget is per page: every download_trades_since call starts
\* with DefaultRetries retries whatever the earlier pages consumed, a call
\* survives three failed attempts, and the download aborts only when one
\* call fails DefaultRetries + 1 attempts in a row.
C18_BudgetPerPage ==
    /\ [][(pc = "loop" /\ pc' = "try") => (retries' = DefaultRetries /\ attempts' = 0)]_vars
    /\ [](pc = "try" => (retries >= 0 /\ retries + attempts = DefaultRetries))
    /\ []((pc = "raised" /\ cause = "fetch") =>
              (retries = 0 /\ attempts = DefaultRetries + 1))
    /\ [][(pc = "try" /\ retries > 0) => ~(pc' = "raised" /\ cause' = "fetch")]_vars

\* C18 witness: a run returned although an earlier page and the last page each
\* failed three times (six failed attempts, more than one budget).
C18_Witness ==
    pc = "returned" /\ spentBefore /\ retries = 0 /\ attempts = DefaultRetries + 1
\* s is a prefix of t.
IsPrefix(s, t) == Len(s) <= Len(t) /\ SubSeq(t, 1, Len(s)) = s

\* C19: the file is header first and append only: the header is written when
\* the file is opened, before any fetch, and once; afterwards it is the first
\* line, every other line is a trade, and every step leaves the earlier
\* content as a prefix of the later content.
C19_AppendOnly ==
    /\ [](pc = "start" => sink = <<>>)
    /\ [](pc = "call" => (sink = <<Header>> /\ tid = NoTid /\ attempts = 0))
    /\ [](pc # "start" =>
              (Len(sink) >= 1 /\ sink[1] = Header /\ \A i \in 2..Len(sink) : sink[i] \in Tids))
    /\ [][IsPrefix(sink, sink')]_vars

\* C19 witness: two pages were appended after the header.
C19_Witness ==
    /\ pc = "loop"
    /\ requested # {}
    /\ batch # <<>>
    /\ Len(sink) > Len(sinkAtCall)
    /\ Len(sinkAtCall) > 1
    /\ sink[1] = Header
\* C13: download_trades_by_month downloads from the first day of the month
\* to the first day of the next month, January of year + 1 after December;
\* the months of a year are contiguous, none is empty, and the first begins
\* and the last ends where download_trades_by_year does.
C13_MonthRanges ==
    op = "download_trades_by_month" =>
        LET y == arg.year
            m == arg.month
        IN  /\ result.begin = datetime_to_tid([y |-> y, m |-> m, d |-> 1])
            /\ m < 12 => result.end = datetime_to_tid([y |-> y, m |-> m + 1, d |-> 1])
            /\ m = 12 => result.end = datetime_to_tid([y |-> y + 1, m |-> 1, d |-> 1])
            /\ TidLess(result.begin, result.end)
            /\ result.end.hi - result.begin.hi = DaysInMonth(y, m) * 86400
            /\ m < 12 => result.end = MonthRange(y, m + 1).begin
            /\ m = 1 => result.begin = YearRange(y).begin
            /\ m = 12 => result.end = YearRange(y).end

\* C13 witness: December 2012 ends at 2013-01-01T00:00:00Z (1356998400 s).
C13_Witness ==
    /\ op = "download_trades_by_month"
    /\ arg.year = 2012
    /\ arg.month = 12
    /\ result.end = [hi |-> 1356998400, lo |-> 0]
    /\ result.end = YearRange(2013).begin

\* C14: the decoder scales the price by the entry's price_currency alone,
\* whatever its case: 10^-3 for JPY and SEK, 10^-8 for BTC, 10^-5 for the
\* others; the amount is always scaled by 10^-8, the id is int(tid) and the
\* type is passed through.
C14_Decoder ==
    (op = "Trade" /\ result # Raised) =>
        LET t == arg.trade
        IN  /\ result.tradeId = t.tid.n
            /\ result.type = t.trade_type
            /\ result.amount = [mant |-> t.amount_int.n, exp |-> 8]
            /\ result.price.mant = t.price_int.n
            /\ t.price_currency \in {"JPY", "jpy", "Jpy", "SEK", "sek"} => result.price.exp = 3
            /\ t.price_currency \in {"BTC", "btc"} => result.price.exp = 8
            /\ t.price_currency \in {"USD", "usd", "EUR"} => result.price.exp = 5

\* C14 witness: a lower case jpy price next to an amount, decoded.
C14_Witness ==
    /\ op = "Trade"
    /\ result # Raised
    /\ arg.trade.price_currency = "jpy"
    /\ arg.trade.price_int = [form |-> "str", n |-> 2]
    /\ result.price = [mant |-> 2, exp |-> 3]
    /\ result.amount.exp = 8

\* C16: Trades keeps exactly the entries whose primary field is "Y", in
\* arrival order; first and last have the lowest and the highest id of the
\* kept trades whatever the order, and are None exactly when nothing is kept.
C16_PageFilter ==
    (op = "Trades" /\ result # Raised) =>
        LET kept == PrimaryTids(arg.entries)
        IN  /\ getTrades(result) = kept
            /\ (kept = <<>>) <=> (getFirst(result) = NoTid)
            /\ (kept = <<>>) <=> (getLast(result) = NoTid)
            /\ kept # <<>> =>
                  /\ getFirst(result) \in Range(kept)
                  /\ getLast(result) \in Range(kept)
                  /\ \A t \in Range(kept) : getFirst(result) <= t /\ t <= getLast(result)

\* C16 witness: a page in descending order with a non primary entry in it.
C16_Witness ==
    /\ op = "Trades"
    /\ Len(arg.entries) = 3
    /\ getTrades(result) = <<2, 1>>
    /\ getFirst(result) = 1
    /\ getLast(result) = 2

\* C20: the page filter is idempotent: applied to the entries it kept, it
\* keeps all of them and yields the same trades, first and last.
C20_FilterIdempotent ==
    op = "Trades again" =>
        /\ result.twice = result.once
        /\ Len(getTrades(result.twice)) =
               Len(SelectSeq(arg.entries, LAMBDA e : e.primary = "Y"))

\* C20 witness: a page with a non primary entry of the highest id, filtered twice.
C20_Witness ==
    /\ op = "Trades again"
    /\ Len(arg.entries) = 3
    /\ arg.entries[3] = [tid |-> 2, primary |-> "N", malformed |-> FALSE]
    /\ Len(getTrades(result.twice)) = 2
    /\ getLast(result.once) = 1

====
